---- MODULE Spec2Model ----
(***************************************************************************)
(* The authentication pipeline of the gateway: the Auth middleware         *)
(* (internal/middleware/auth.go), the login handler and the token          *)
(* functions (internal/auth/auth.go), the identity context slot            *)
(* (internal/auth/identity.go) and the credential store (package store);  *)
(* requests handled concurrently, with their store queries and the         *)
(* connection pool (internal/database/database.go); and the reverse proxy  *)
(* (package proxy).                                                        *)
(*                                                                         *)
(* Time is counted in ticks, TicksPerSecond of them to the second, so that *)
(* the truncation of a time.Time to a JWT NumericDate (whole seconds) is   *)
(* visible.  Strings that the code slices or matches by prefix are         *)
(* sequences of one-character strings.                                     *)
(***************************************************************************)
EXTENDS Integers, Sequences, FiniteSets, TLC

VARIABLES now, revoked, dbUp, cfg, last, threads

vars == <<now, revoked, dbUp, cfg, last, threads>>

---------------------------------------------------------------------------
\* Bounds of the model.

\* The clock runs from 0 to MaxTime ticks.
MaxTime == 3
\* At most MaxSkew ticks pass between two successive clock reads of one call.
MaxSkew == 1
\* Resolution of the clock: ticks per second.
TicksPerSecond == 2
\* Requests the server handles at the same time, each on a goroutine of its own.
NumWorkers == 2
\* The longest path sent to the proxy, in segments.
MaxSegments == 3

---------------------------------------------------------------------------
\* Library constants the code relies on (go-jose v4, pinned in go.mod).

\* jwt.DefaultLeeway, used by Claims.Validate: one minute, in seconds.
DefaultLeeway == 60
\* HS256 refuses keys shorter than the hash output: 256 bits, in bytes.
MinHS256KeyBytes == 32

\* db.SetMaxOpenConns(10): the size of the connection pool.
MaxOpenConns == 10

Secs(s) == s * TicksPerSecond

---------------------------------------------------------------------------
\* Strings as character sequences.

HasPrefix(s, p) == Len(s) >= Len(p) /\ SubSeq(s, 1, Len(p)) = p

PathHealthz   == <<"/", "h", "e", "a", "l", "t", "h", "z">>
PathHealthzX  == PathHealthz \o <<"/", "x">>
PathLogin     == <<"/", "a", "u", "t", "h", "/", "l", "o", "g", "i", "n">>
PathA         == <<"/", "a", "/", "x">>

Paths == {PathHealthz, PathHealthzX, PathLogin, PathA}

---------------------------------------------------------------------------
\* Persisted data: the users and api_keys tables (the schema and the seed
\* rows of the migration, plus a second user so that owners can differ).

U1 == "11111111-1111-1111-1111-111111111111"
U2 == "aaaaaaaa-aaaa-aaaa-aaaa-aaaaaaaaaaaa"
\* uuid.Nil, the zero value of uuid.UUID.
NilUUID == "00000000-0000-0000-0000-000000000000"

\* A bcrypt hash embeds its cost and salt; it matches exactly one password.
BcryptHash(password) == [cost |-> "10", salt |-> "CwTycUXWue0Thq9StjUM0u", of |-> password]

\* bcrypt.CompareHashAndPassword(hash, password) = nil
CompareHashAndPassword(hash, password) == hash.of = password

UsersTable ==
    { [id |-> U1, email |-> "demo@puvaan.dev", password_hash |-> BcryptHash("demo-pass")],
      [id |-> U2, email |-> "ops@puvaan.dev",  password_hash |-> BcryptHash("ops-pass")] }

\* api_keys rows without the revoked column, which is the variable revoked.
APIKeysTable ==
    { [key |-> "demo-key-123", user_id |-> U1],
      [key |-> "ops-key-456",  user_id |-> U2] }

StoredKeys == { k.key : k \in APIKeysTable }

\* store.Identity
StoreIdentity(id, email) == [UserID |-> id, Email |-> email]

NoStoreIdentity == StoreIdentity(NilUUID, "")

\* The rows of the same query without the filter on the revoked column.
APIKeyRowsAnyRevoked(key, rev) ==
    { StoreIdentity(ak.user_id, u.email) :
        <<ak, u>> \in { p \in APIKeysTable \X UsersTable :
                          /\ p[1].user_id = p[2].id
                          /\ p[1].key = key } }

\* The rows of
\*   SELECT ak.user_id, u.email FROM api_keys ak JOIN users u ON ak.user_id = u.id
\*   WHERE ak.key = $1 AND ak.revoked = false
\* with rev the set of keys whose revoked column is true.
APIKeyRows(key, rev) ==
    { StoreIdentity(ak.user_id, u.email) :
        <<ak, u>> \in { p \in APIKeysTable \X UsersTable :
                          /\ p[1].user_id = p[2].id
                          /\ p[1].key = key
                          /\ p[1].key \notin rev } }

\* A lookup that tells a revoked key from an unknown one.
LookupAPIKeyTellsRevoked(key, rev, up) ==
    IF ~up THEN [err |-> "db error", identity |-> NoStoreIdentity]
    ELSE IF APIKeyRows(key, rev) = {}
         THEN [err |-> IF key \in rev THEN "ErrAPIKeyRevoked" ELSE "ErrAPIKeyNotFound",
               identity |-> NoStoreIdentity]
         ELSE [err |-> "nil", identity |-> CHOOSE row \in APIKeyRows(key, rev) : TRUE]

\* Store.LookupAPIKey: up is false when the query fails for a reason other
\* than sql.ErrNoRows (the database cannot be reached).
LookupAPIKey(key, rev, up) ==
    IF ~up THEN [err |-> "db error", identity |-> NoStoreIdentity]
    ELSE IF APIKeyRows(key, rev) = {}
         THEN [err |-> "ErrAPIKeyNotFound", identity |-> NoStoreIdentity]
         ELSE [err |-> "nil", identity |-> CHOOSE row \in APIKeyRows(key, rev) : TRUE]

\* The rows of SELECT id, email, password_hash FROM users WHERE email = $1
UserRows(email) == { u \in UsersTable : u.email = email }

\* An AuthenticateUser with an error of its own for an unknown email.
AuthenticateUserTellsUnknown(email, password, up) ==
    IF ~up THEN [err |-> "db error", identity |-> NoStoreIdentity]
    ELSE IF UserRows(email) = {}
         THEN [err |-> "ErrUserNotFound", identity |-> NoStoreIdentity]
         ELSE LET u == CHOOSE row \in UserRows(email) : TRUE IN
              IF ~CompareHashAndPassword(u.password_hash, password)
              THEN [err |-> "ErrInvalidCredentials", identity |-> NoStoreIdentity]
              ELSE [err |-> "nil", identity |-> StoreIdentity(u.id, u.email)]

\* Store.AuthenticateUser
AuthenticateUser(email, password, up) ==
    IF ~up THEN [err |-> "db error", identity |-> NoStoreIdentity]
    ELSE IF UserRows(email) = {}
         THEN [err |-> "ErrInvalidCredentials", identity |-> NoStoreIdentity]
         ELSE LET u == CHOOSE row \in UserRows(email) : TRUE IN
              IF ~CompareHashAndPassword(u.password_hash, password)
              THEN [err |-> "ErrInvalidCredentials", identity |-> NoStoreIdentity]
              ELSE [err |-> "nil", identity |-> StoreIdentity(u.id, u.email)]

---------------------------------------------------------------------------
\* Identity and the request context (internal/auth/identity.go).

\* auth.Identity
Identity(id, email, method) == [UserID |-> id, Email |-> email, Method |-> method]

\* Identity{}, the zero value.
ZeroIdentity == Identity(NilUUID, "", "")

identityContextKey == "gateway.identity"

\* A context is the chain of its (key, value) pairs, innermost first; the
\* context of an incoming request holds no identity.
EmptyContext == << >>

\* auth.WithIdentity
WithIdentity(ctx, id) == <<[key |-> identityContextKey, val |-> id]>> \o ctx

\* A FromContext that reports the zero Identity as present when the
\* context holds none.
FromContextZeroPresent(ctx) ==
    LET hits == { i \in 1..Len(ctx) : ctx[i].key = identityContextKey } IN
    IF hits = {} THEN [identity |-> ZeroIdentity, ok |-> TRUE]
    ELSE [identity |-> ctx[CHOOSE i \in hits : \A j \in hits : i <= j].val, ok |-> TRUE]

\* auth.FromContext
FromContext(ctx) ==
    LET hits == { i \in 1..Len(ctx) : ctx[i].key = identityContextKey } IN
    IF hits = {} THEN [identity |-> ZeroIdentity, ok |-> FALSE]
    ELSE [identity |-> ctx[CHOOSE i \in hits : \A j \in hits : i <= j].val, ok |-> TRUE]

\* auth.IdentityFromStore
IdentityFromStore(identity, method) == Identity(identity.UserID, identity.Email, method)

---------------------------------------------------------------------------
\* Bearer tokens (internal/auth/auth.go, on go-jose v4 and google/uuid).

SecretA     == "0123456789abcdef0123456789abcdef"
SecretB     == "fedcba9876543210fedcba9876543210"
\* JWT_SECRET=devsecret, the value of the compose file in the design note.
SecretShort == "devsecret"

\* len(secret), in bytes.
KeyBytes(secret) == IF secret = SecretShort THEN 9 ELSE MinHS256KeyBytes

\* A token string.  A compact JWS is described by what it decodes to: the
\* alg of its header, its claims, and key, the key its MAC was computed
\* with ("" when the MAC matches no key).  Anything else is form "garbage".
Token(alg, key, sub, email, iss, iat, nbf, exp) ==
    [form |-> "jws", alg |-> alg, key |-> key, sub |-> sub, email |-> email,
     iss |-> iss, iat |-> iat, nbf |-> nbf, exp |-> exp]

GarbageToken ==
    [form |-> "garbage", alg |-> "", key |-> "", sub |-> "", email |-> "",
     iss |-> "", iat |-> 0, nbf |-> 0, exp |-> 0]

\* "" as a token string.
EmptyToken == [GarbageToken EXCEPT !.form = "empty"]

\* jwt.NewNumericDate(t): t.Unix(), the whole seconds of t.
NewNumericDate(t) == t \div TicksPerSecond

\* NumericDate.Time(): the instant of a NumericDate.
NumericDateTime(d) == Secs(d)

\* The texts uuid.Parse accepts, each with the UUID it denotes.
UUIDTexts ==
    { <<U1, U1>>, <<"urn:uuid:11111111-1111-1111-1111-111111111111", U1>>,
      <<U2, U2>>, <<"AAAAAAAA-AAAA-AAAA-AAAA-AAAAAAAAAAAA", U2>> }

\* uuid.Parse
UUIDParse(text) ==
    IF \E f \in UUIDTexts : f[1] = text
    THEN [err |-> "nil", id |-> (CHOOSE f \in UUIDTexts : f[1] = text)[2]]
    ELSE [err |-> "invalid UUID", id |-> NilUUID]

\* UUID.String(): the canonical text, which the model uses as the value.
UUIDString(id) == id

\* jwt.ParseSigned(token, signatureAlgorithms): the token must be a compact
\* JWS whose alg is one of signatureAlgorithms; an empty list allows none.
ParseSigned(token, signatureAlgorithms) ==
    IF token.form # "jws" THEN "malformed"
    ELSE IF signatureAlgorithms = {} THEN "no signature algorithms specified"
    ELSE IF token.alg \notin signatureAlgorithms THEN "unexpected signature algorithm"
    ELSE "nil"

\* parsed.Claims(secret, &claims): the MAC is checked with the secret; an
\* HS256 key shorter than the hash output is refused.
VerifySignature(token, secret) ==
    IF token.alg # "HS256" THEN "unsupported algorithm"
    ELSE IF KeyBytes(secret) < MinHS256KeyBytes THEN "invalid key size"
    ELSE IF token.key # secret THEN "error in cryptographic primitive"
    ELSE "nil"

\* claims.Validate(jwt.Expected{Time: t}), which is ValidateWithLeeway with
\* DefaultLeeway.
Validate(token, t) ==
    IF t + Secs(DefaultLeeway) < NumericDateTime(token.nbf) THEN "ErrNotValidYet"
    ELSE IF t - Secs(DefaultLeeway) > NumericDateTime(token.exp) THEN "ErrExpired"
    ELSE IF t + Secs(DefaultLeeway) < NumericDateTime(token.iat) THEN "ErrIssuedInTheFuture"
    ELSE "nil"

VerifyFailed(err) == [err |-> err, identity |-> ZeroIdentity]

\* VerifyToken with the list of algorithms it hands to jwt.ParseSigned.
VerifyTokenWith(token, secret, t, signatureAlgorithms) ==
    IF ParseSigned(token, signatureAlgorithms) # "nil"
    THEN VerifyFailed(ParseSigned(token, signatureAlgorithms))
    ELSE IF VerifySignature(token, secret) # "nil"
    THEN VerifyFailed(VerifySignature(token, secret))
    ELSE IF Validate(token, t) # "nil"
    THEN VerifyFailed(Validate(token, t))
    ELSE IF UUIDParse(token.sub).err # "nil"
    THEN VerifyFailed(UUIDParse(token.sub).err)
    ELSE [err |-> "nil",
          identity |-> Identity(UUIDParse(token.sub).id, token.email, "jwt")]

\* VerifyToken had it named HS256 as the algorithm it expects.
VerifyTokenHS256(token, secret, t) == VerifyTokenWith(token, secret, t, {"HS256"})

\* VerifyToken had it decoded the claims without checking the signature.
VerifyTokenUnverified(token, secret, t) ==
    IF token.form # "jws" THEN VerifyFailed("malformed")
    ELSE IF Validate(token, t) # "nil" THEN VerifyFailed(Validate(token, t))
    ELSE IF UUIDParse(token.sub).err # "nil" THEN VerifyFailed(UUIDParse(token.sub).err)
    ELSE [err |-> "nil",
          identity |-> Identity(UUIDParse(token.sub).id, token.email, "jwt")]

\* auth.VerifyToken at time t: it calls jwt.ParseSigned(token, nil).
VerifyToken(token, secret, t) == VerifyTokenWith(token, secret, t, {})

\* Handler.generateToken.  The clock is read three times: t1 for the expiry,
\* t2 for issued-at, t3 for not-before.
generateToken(identity, secret, tokenTTL, issuer, t1, t2, t3) ==
    LET exp == t1 + tokenTTL
        out == Token("HS256", secret, UUIDString(identity.UserID), identity.Email,
                     issuer, NewNumericDate(t2), NewNumericDate(t3),
                     NewNumericDate(exp))
    IN  IF KeyBytes(secret) < MinHS256KeyBytes
        THEN [err |-> "invalid key size", token |-> EmptyToken, exp |-> 0]
        ELSE [err |-> "nil", token |-> out, exp |-> exp]

---------------------------------------------------------------------------
\* Header values.  A header value is a sequence of elements: a character,
\* or a token string carried as one opaque element.

Ch(c)   == [c |-> c]
Blob(t) == [c |-> "", tok |-> t]
Str(s)  == [i \in 1..Len(s) |-> Ch(s[i])]

LowerChar(c) ==
    CASE c = "B" -> "b" [] c = "E" -> "e" [] c = "A" -> "a" [] c = "R" -> "r"
      [] c = "S" -> "s" [] c = "I" -> "i" [] c = "C" -> "c" [] OTHER -> c

\* strings.ToLower
ToLower(h) == [i \in 1..Len(h) |-> [h[i] EXCEPT !.c = LowerChar(h[i].c)]]

\* strings.TrimSpace
TrimSpace(h) ==
    LET keep == { i \in 1..Len(h) : h[i].c # " " } IN
    IF keep = {} THEN << >>
    ELSE SubSeq(h, CHOOSE i \in keep : \A j \in keep : i <= j,
                   CHOOSE i \in keep : \A j \in keep : i >= j)

\* The token string a header remainder spells.
TokenString(h) ==
    IF h = << >> THEN EmptyToken
    ELSE IF Len(h) = 1 /\ h[1].c = "" THEN h[1].tok
    ELSE GarbageToken

\* textproto.CanonicalMIMEHeaderKey, on the header names in use.
CanonicalMIMEHeaderKey(name) ==
    CASE name \in {"X-API-Key", "x-api-key", "X-Api-Key"} -> "X-Api-Key"
      [] OTHER -> name

HeaderNames == {"X-Api-Key", "X-Gateway-Key"}

\* r.Header.Get(name) for the headers other than Authorization.
HeaderGet(r, name) ==
    IF CanonicalMIMEHeaderKey(name) \in HeaderNames
    THEN r.hdr[CanonicalMIMEHeaderKey(name)] ELSE ""

---------------------------------------------------------------------------
\* The Auth middleware (internal/middleware/auth.go).

\* An authenticateJWT that takes the scheme only as it is spelled, "Bearer".
authenticateJWTCaseSensitive(r, secret, t) ==
    LET authz == r.authz
        token == TrimSpace(SubSeq(authz, 8, Len(authz)))
        v     == VerifyToken(TokenString(token), secret, t)
    IN  IF authz = << >>
        THEN [identity |-> ZeroIdentity, ok |-> FALSE, verifyCalls |-> 0]
        ELSE IF ~HasPrefix(authz, Str(<<"B", "e", "a", "r", "e", "r", " ">>))
        THEN [identity |-> ZeroIdentity, ok |-> FALSE, verifyCalls |-> 0]
        ELSE IF token = << >>
        THEN [identity |-> ZeroIdentity, ok |-> FALSE, verifyCalls |-> 0]
        ELSE IF v.err # "nil"
        THEN [identity |-> ZeroIdentity, ok |-> FALSE, verifyCalls |-> 1]
        ELSE [identity |-> v.identity, ok |-> TRUE, verifyCalls |-> 1]

\* authenticateJWT: the identity, whether it was verified, and the number
\* of calls of VerifyToken made.
authenticateJWT(r, secret, t) ==
    LET authz == r.authz
        token == TrimSpace(SubSeq(authz, 8, Len(authz)))
        v     == VerifyToken(TokenString(token), secret, t)
    IN  IF authz = << >>
        THEN [identity |-> ZeroIdentity, ok |-> FALSE, verifyCalls |-> 0]
        ELSE IF ~HasPrefix(ToLower(authz), Str(<<"b", "e", "a", "r", "e", "r", " ">>))
        THEN [identity |-> ZeroIdentity, ok |-> FALSE, verifyCalls |-> 0]
        ELSE IF token = << >>
        THEN [identity |-> ZeroIdentity, ok |-> FALSE, verifyCalls |-> 0]
        ELSE IF v.err # "nil"
        THEN [identity |-> ZeroIdentity, ok |-> FALSE, verifyCalls |-> 1]
        ELSE [identity |-> v.identity, ok |-> TRUE, verifyCalls |-> 1]

\* The header name without the default.
APIKeyHeaderNameNoDefault(c) == c.APIKeyHeader

\* The name of the API-key header: cfg.APIKeyHeader, X-API-Key by default.
APIKeyHeaderName(c) == IF c.APIKeyHeader = "" THEN "X-API-Key" ELSE c.APIKeyHeader

\* authenticateAPIKey: the identity, whether the key was accepted, and the
\* number of store lookups made.
authenticateAPIKey(r, c, rev, up) ==
    LET value == HeaderGet(r, APIKeyHeaderName(c))
        res   == LookupAPIKey(value, rev, up)
    IN  IF value = ""
        THEN [identity |-> ZeroIdentity, ok |-> FALSE, lookups |-> 0]
        ELSE IF res.err # "nil"
        THEN [identity |-> ZeroIdentity, ok |-> FALSE, lookups |-> 1]
        ELSE [identity |-> IdentityFromStore(res.identity, "api_key"),
              ok |-> TRUE, lookups |-> 1]

\* The bypass test without the configured skip paths.
BypassedPrefixOnly(path, c) == HasPrefix(path, PathHealthz)

\* The bypass test of Auth: a configured skip path, or any path that starts
\* with /healthz.
Bypassed(path, c) == path \in c.SkipPaths \/ HasPrefix(path, PathHealthz)

\* next.ServeHTTP(w, r') with r' carrying context ctx: the gate writes no
\* response of its own (status 0).
Forward(ctx, verifyCalls, lookups) ==
    [status |-> 0, body |-> "", next |-> TRUE, ctx |-> ctx,
     verifyCalls |-> verifyCalls, lookups |-> lookups]

\* A rejection whose body tells that a bearer token was examined.
RejectLeaky(code, msg, verifyCalls, lookups) ==
    [status |-> code, body |-> IF verifyCalls > 0 THEN "invalid token\n" ELSE msg,
     next |-> FALSE, ctx |-> EmptyContext,
     verifyCalls |-> verifyCalls, lookups |-> lookups]

\* http.Error(w, msg, code), downstream not called.
Reject(code, msg, verifyCalls, lookups) ==
    [status |-> code, body |-> msg, next |-> FALSE, ctx |-> EmptyContext,
     verifyCalls |-> verifyCalls, lookups |-> lookups]

StatusUnauthorized == 401

\* The handler had it rejected a failed bearer token at once.
AuthHandlerNoFallback(r, c, t, rev, up) ==
    LET jwt == authenticateJWT(r, c.JWTSecret, t)
        key == authenticateAPIKey(r, c, rev, up)
    IN  IF Bypassed(r.path, c)
        THEN Forward(EmptyContext, 0, 0)
        ELSE IF jwt.ok
        THEN Forward(WithIdentity(EmptyContext, jwt.identity), jwt.verifyCalls, 0)
        ELSE IF jwt.verifyCalls > 0
        THEN Reject(StatusUnauthorized, "unauthorized\n", jwt.verifyCalls, 0)
        ELSE IF key.ok
        THEN Forward(WithIdentity(EmptyContext, key.identity), jwt.verifyCalls, key.lookups)
        ELSE Reject(StatusUnauthorized, "unauthorized\n", jwt.verifyCalls, key.lookups)

\* The handler Auth(cfg)(next) on request r, at time t, with the store in
\* state (rev, up).
AuthHandler(r, c, t, rev, up) ==
    LET jwt == authenticateJWT(r, c.JWTSecret, t)
        key == authenticateAPIKey(r, c, rev, up)
    IN  IF Bypassed(r.path, c)
        THEN Forward(EmptyContext, 0, 0)
        ELSE IF jwt.ok
        THEN Forward(WithIdentity(EmptyContext, jwt.identity), jwt.verifyCalls, 0)
        ELSE IF key.ok
        THEN Forward(WithIdentity(EmptyContext, key.identity), jwt.verifyCalls, key.lookups)
        ELSE Reject(StatusUnauthorized, "unauthorized\n", jwt.verifyCalls, key.lookups)

---------------------------------------------------------------------------
\* The login handler (internal/auth/auth.go).

StatusOK                  == 200
StatusBadRequest          == 400
StatusMethodNotAllowed    == 405
StatusInternalServerError == 500

\* A response of the login handler; token and expires_at are the fields of
\* the JSON body of a success.
LoginResponse(code, msg, token, exp) ==
    [status |-> code, body |-> msg, token |-> token, expires_at |-> exp]

\* A login handler that decodes the body before it looks at the method.
LoginHandlerBodyFirst(method, body, c, up, t1, t2, t3) ==
    LET auth == AuthenticateUser(body.Email, body.Password, up)
        gen  == generateToken(auth.identity, c.JWTSecret, c.tokenTTL, c.issuer, t1, t2, t3)
    IN  IF ~body.json
        THEN LoginResponse(StatusBadRequest, "invalid payload\n", EmptyToken, 0)
        ELSE IF body.Email = "" \/ body.Password = ""
        THEN LoginResponse(StatusBadRequest, "email and password required\n", EmptyToken, 0)
        ELSE IF method # "POST"
        THEN LoginResponse(StatusMethodNotAllowed, "method not allowed\n", EmptyToken, 0)
        ELSE IF auth.err = "ErrInvalidCredentials"
        THEN LoginResponse(StatusUnauthorized, "invalid credentials\n", EmptyToken, 0)
        ELSE IF auth.err # "nil"
        THEN LoginResponse(StatusInternalServerError, "authentication failed\n", EmptyToken, 0)
        ELSE IF gen.err # "nil"
        THEN LoginResponse(StatusInternalServerError, "could not issue token\n", EmptyToken, 0)
        ELSE LoginResponse(StatusOK, "json", gen.token, gen.exp)

\* The handler of Handler.LoginHandler on a request with the given method
\* and body; body.json says whether the body decodes into a loginRequest.
LoginHandler(method, body, c, up, t1, t2, t3) ==
    LET auth == AuthenticateUser(body.Email, body.Password, up)
        gen  == generateToken(auth.identity, c.JWTSecret, c.tokenTTL, c.issuer, t1, t2, t3)
    IN  IF method # "POST"
        THEN LoginResponse(StatusMethodNotAllowed, "method not allowed\n", EmptyToken, 0)
        ELSE IF ~body.json
        THEN LoginResponse(StatusBadRequest, "invalid payload\n", EmptyToken, 0)
        ELSE IF body.Email = "" \/ body.Password = ""
        THEN LoginResponse(StatusBadRequest, "email and password required\n", EmptyToken, 0)
        ELSE IF auth.err = "ErrInvalidCredentials"
        THEN LoginResponse(StatusUnauthorized, "invalid credentials\n", EmptyToken, 0)
        ELSE IF auth.err # "nil"
        THEN LoginResponse(StatusInternalServerError, "authentication failed\n", EmptyToken, 0)
        ELSE IF gen.err # "nil"
        THEN LoginResponse(StatusInternalServerError, "could not issue token\n", EmptyToken, 0)
        ELSE LoginResponse(StatusOK, "json", gen.token, gen.exp)

---------------------------------------------------------------------------
\* Configuration: AuthConfig of the gate and the fields of auth.Handler,
\* fixed at construction.  One signing secret serves both.

Config(secret, header, skip, ttl) ==
    [JWTSecret |-> secret, APIKeyHeader |-> header, SkipPaths |-> skip,
     tokenTTL |-> ttl, issuer |-> "api-gateway"]

Configs ==
    { Config(SecretA, "", {PathHealthz, PathLogin}, Secs(1)),
      Config(SecretA, "X-Gateway-Key", {PathLogin}, Secs(2)),
      Config(SecretShort, "x-api-key", {}, Secs(1)) }

---------------------------------------------------------------------------
\* Inputs.

DemoEmail == "demo@puvaan.dev"
OpsEmail  == "ops@puvaan.dev"

\* (issued-at, not-before, expiry) of the tokens presented, in seconds.
TimeTriples ==
    { <<0, 0, 5>>, <<0, 0, 1>>, <<-100, -100, -61>>, <<-100, -100, -60>>,
      <<0, 1, 5>>, <<0, 61, 99>>, <<62, 0, 99>> }

PresentedTokens ==
    { Token("HS256", SecretA, U1, DemoEmail, "api-gateway", tr[1], tr[2], tr[3]) :
        tr \in TimeTriples }
    \cup
    { Token("HS256", SecretB, U1, DemoEmail, "api-gateway", 0, 0, 5),
      Token("HS256", SecretShort, U1, DemoEmail, "api-gateway", 0, 0, 5),
      Token("HS256", "", U1, DemoEmail, "api-gateway", 0, 0, 5),
      Token("none", "", U1, DemoEmail, "api-gateway", 0, 0, 5),
      Token("HS256", SecretA, "not-a-uuid", DemoEmail, "api-gateway", 0, 0, 5),
      Token("HS256", SecretA, "AAAAAAAA-AAAA-AAAA-AAAA-AAAAAAAAAAAA", OpsEmail,
            "someone-else", 0, 0, 5),
      GarbageToken }

Bearer(scheme, spaces, token) == Str(scheme) \o Str(spaces) \o <<Blob(token)>>

SchemeBearer == <<"B", "e", "a", "r", "e", "r">>

AuthzInputs ==
    { Bearer(SchemeBearer, <<" ">>, tok) : tok \in PresentedTokens }
    \cup
    { << >>,
      Str(SchemeBearer),
      Str(SchemeBearer \o <<" ">>),
      Str(SchemeBearer \o <<" ", " ">>),
      Bearer(<<"b", "e", "a", "r", "e", "r">>, <<" ">>,
             Token("HS256", SecretA, U1, DemoEmail, "api-gateway", 0, 0, 5)),
      Bearer(<<"B", "E", "A", "R", "E", "R">>, <<" ", " ">>,
             Token("HS256", SecretA, U1, DemoEmail, "api-gateway", 0, 0, 5)) \o Str(<<" ">>),
      Bearer(<<"B", "a", "s", "i", "c">>, <<" ">>,
             Token("HS256", SecretA, U1, DemoEmail, "api-gateway", 0, 0, 5)) }

HeaderInputs ==
    { [n \in HeaderNames |-> IF n = "X-Api-Key" THEN a ELSE g] :
        a \in {"", "demo-key-123", "ops-key-456", "DEMO-KEY-123"},
        g \in {"", "ops-key-456"} }

\* Contexts a request may arrive with at a handler: nothing attached, a
\* value of another middleware under its own key, and an identity attached
\* earlier.
ContextInputs ==
    { EmptyContext,
      <<[key |-> "request.id", val |-> "r-1"]>>,
      WithIdentity(<<[key |-> "request.id", val |-> "r-1"]>>,
                   Identity(U2, OpsEmail, "api_key")) }

Request(path, authz, hdr) == [path |-> path, authz |-> authz, hdr |-> hdr]

LoginBodies ==
    { [json |-> FALSE, Email |-> "", Password |-> ""] }
    \cup
    { [json |-> TRUE, Email |-> e, Password |-> p] :
        e \in {"", DemoEmail, OpsEmail, "nobody@puvaan.dev"},
        p \in {"", "demo-pass", "ops-pass"} }

---------------------------------------------------------------------------
\* The state machine.

\* now      the clock, in ticks
\* revoked  the keys of the api_keys rows whose revoked column is true
\* dbUp     whether the database answers queries
\* cfg      the configuration
\* last     the request being answered and its response, "none" between
\*          requests; the rest of the state is as it was when the request
\*          was handled
\* threads  the requests handled concurrently, one per goroutine: where
\*          each one is in its handler, and its local variables
Workers == 1..NumWorkers

\* A goroutine that serves no request.
IdleThread ==
    [pc |-> "idle", kind |-> "none", req |-> << >>, aborted |-> FALSE,
     conn |-> FALSE, query |-> "none", res |-> << >>, seen |-> << >>]

Init ==
    /\ now = 0
    /\ revoked = {}
    /\ dbUp = TRUE
    /\ cfg \in Configs
    /\ last = [op |-> "none"]
    /\ threads = [i \in Workers |-> IdleThread]

Idle == last.op = "none"

\* The client holds the token of the login response it has just received.
HoldsToken == last.op = "login" /\ last.res.status = StatusOK

\* A request passes through the Auth middleware.
Auth(r) ==
    /\ last' = [op |-> "gate", req |-> r,
                res |-> AuthHandler(r, cfg, now, revoked, dbUp)]
    /\ UNCHANGED <<now, revoked, dbUp, cfg, threads>>

\* A client sends a request.
AuthRequest(p, a, h) ==
    /\ Idle
    /\ Auth(Request(p, a, h))

\* A client that has just logged in sends a request with the token it got.
AuthWithIssued(p, h) ==
    /\ HoldsToken
    /\ Auth(Request(p, Bearer(SchemeBearer, <<" ">>, last.res.token), h))

\* A request to POST /auth/login is handled; the clock advances between the
\* clock reads of generateToken.
Login(method, body, d1, d2) ==
    /\ Idle
    /\ now + d1 + d2 <= MaxTime
    /\ last' = [op |-> "login", method |-> method, body |-> body,
                t1 |-> now, t2 |-> now + d1, t3 |-> now + d1 + d2,
                res |-> LoginHandler(method, body, cfg, dbUp, now, now + d1, now + d1 + d2)]
    /\ now' = now + d1 + d2
    /\ UNCHANGED <<revoked, dbUp, cfg, threads>>

\* The response is written and the request is over.
Done ==
    /\ ~Idle
    /\ last' = [op |-> "none"]
    /\ UNCHANGED <<now, revoked, dbUp, cfg, threads>>

\* Time passes.
Tick ==
    /\ Idle
    /\ now < MaxTime
    /\ now' = now + 1
    /\ UNCHANGED <<revoked, dbUp, cfg, last, threads>>

\* Revocation tooling sets the revoked column of a key.
Revoke(k) ==
    /\ Idle
    /\ k \notin revoked
    /\ revoked' = revoked \cup {k}
    /\ UNCHANGED <<now, dbUp, cfg, last, threads>>

\* The database becomes unreachable, or reachable again.
StoreOutage ==
    /\ Idle
    /\ dbUp' = ~dbUp
    /\ UNCHANGED <<now, revoked, cfg, last, threads>>

Next ==
    \/ \E p \in Paths, a \in AuthzInputs, h \in HeaderInputs : AuthRequest(p, a, h)
    \/ \E p \in Paths, h \in HeaderInputs : AuthWithIssued(p, h)
    \/ \E m \in {"POST", "GET"}, b \in LoginBodies, d1 \in 0..MaxSkew, d2 \in 0..MaxSkew :
          Login(m, b, d1, d2)
    \/ Done
    \/ Tick
    \/ \E k \in StoredKeys : Revoke(k)
    \/ StoreOutage

Spec == Init /\ [][Next]_vars

---------------------------------------------------------------------------
\* Concurrent requests.  net/http runs every request on a goroutine of its
\* own; a store query is the one point where a handler waits.  A goroutine
\* is at one of
\*   idle       no request
\*   received   the handler has been entered
\*   query      QueryRowContext(...).Scan is outstanding, a pool connection held
\*   next       the gate has called next.ServeHTTP
\*   responded  the response is written
\* and holds the request (req), whether its context is done (aborted: the
\* client went away, or the handler has returned),
\* whether it holds a pool connection (conn), how its store query ended
\* (query: none made, outstanding, answered, refused, cancelled), the
\* outcome of its handler (res) and what the downstream handler read from
\* its context (seen).

\* The requests sent concurrently.  To the gate: a token that does not
\* verify, alone and together with the key of one user in X-API-Key, the key
\* of the other user in both key headers, and a request to a bypassed path;
\* and a login.
ConcRequests ==
    { [kind |-> "gate",
       req |-> Request(PathA,
                  Bearer(SchemeBearer, <<" ">>,
                         Token("HS256", SecretB, U2, OpsEmail, "api-gateway", 0, 0, 5)),
                  [n \in HeaderNames |-> ""])],
      [kind |-> "gate",
       req |-> Request(PathA,
                  Bearer(SchemeBearer, <<" ">>,
                         Token("HS256", SecretB, U2, OpsEmail, "api-gateway", 0, 0, 5)),
                  [n \in HeaderNames |-> IF n = "X-Api-Key" THEN "demo-key-123" ELSE ""])],
      [kind |-> "gate",
       req |-> Request(PathA, << >>, [n \in HeaderNames |-> "ops-key-456"])],
      [kind |-> "gate",
       req |-> Request(PathHealthz, << >>,
                  [n \in HeaderNames |-> IF n = "X-Api-Key" THEN "demo-key-123" ELSE ""])],
      [kind |-> "login",
       req |-> [method |-> "POST",
                body |-> [json |-> TRUE, Email |-> DemoEmail, Password |-> "demo-pass"]]] }

\* The pool connections in use.
InUse == Cardinality({ i \in Workers : threads[i].conn })

\* The outcome of the handler of t when the store query, if one is made,
\* answers (up) or fails.
ThreadHandler(t, up) ==
    IF t.kind = "gate"
    THEN AuthHandler(t.req, cfg, now, revoked, up)
    ELSE LoginHandler(t.req.method, t.req.body, cfg, up, now, now, now)

\* The handler of t gets as far as its store query: the gate to
\* LookupAPIKey, the login handler to AuthenticateUser.
NeedsQuery(t) ==
    IF t.kind = "gate"
    THEN AuthHandler(t.req, cfg, now, revoked, TRUE).lookups = 1
    ELSE /\ t.req.method = "POST"
         /\ t.req.body.json /\ t.req.body.Email # "" /\ t.req.body.Password # ""

\* A query run under context.Background(): nothing cancels it.
QueryCancelledBackground(t) == FALSE

\* The context the query of t runs under is done: it is r.Context(), which
\* net/http cancels when the client goes away.
QueryCancelled(t) == t.aborted

\* A context shared by the requests: the one an identity was last attached to.
SharedContext(ths, i) ==
    LET holders == { j \in DOMAIN ths :
                       /\ ths[j].kind = "gate"
                       /\ ths[j].pc \in {"next", "responded"}
                       /\ ths[j].res.ctx # EmptyContext }
    IN  IF holders = {} THEN ths[i].res.ctx
        ELSE ths[CHOOSE j \in holders : \A k \in holders : j <= k].res.ctx

\* The context of the request the gate of goroutine i hands to the
\* downstream handler: r.WithContext(ctx), or r itself on a bypass.
RequestContext(ths, i) == ths[i].res.ctx

\* A request arrives and its handler is entered.
Receive(i, cr) ==
    /\ threads[i].pc = "idle"
    /\ threads' = [threads EXCEPT ![i] =
                     [IdleThread EXCEPT !.pc = "received", !.kind = cr.kind,
                                        !.req = cr.req]]
    /\ UNCHANGED <<now, revoked, dbUp, cfg, last>>

\* The handler finishes without a store query.
HandleLocally(i) ==
    LET t == threads[i]
        r == ThreadHandler(t, dbUp)
    IN  /\ t.pc = "received"
        /\ ~NeedsQuery(t)
        /\ threads' = [threads EXCEPT ![i].res = r,
                         ![i].aborted = t.aborted \/ ~(t.kind = "gate" /\ r.next),
                         ![i].pc = IF t.kind = "gate" /\ r.next
                                   THEN "next" ELSE "responded"]
        /\ UNCHANGED <<now, revoked, dbUp, cfg, last>>

\* QueryRowContext takes a connection from the pool and sends the query.
BeginQuery(i) ==
    LET t == threads[i] IN
    /\ t.pc = "received"
    /\ NeedsQuery(t)
    /\ ~QueryCancelled(t)
    /\ InUse < MaxOpenConns
    /\ threads' = [threads EXCEPT ![i].pc = "query", ![i].conn = TRUE,
                                  ![i].query = "outstanding"]
    /\ UNCHANGED <<now, revoked, dbUp, cfg, last>>

\* QueryRowContext under a context already done: no connection is taken, the
\* query fails with the error of the context.
QueryRefused(i) ==
    LET t == threads[i] IN
    /\ t.pc = "received"
    /\ NeedsQuery(t)
    /\ QueryCancelled(t)
    /\ threads' = [threads EXCEPT ![i].res = ThreadHandler(t, FALSE),
                                  ![i].query = "refused", ![i].pc = "responded"]
    /\ UNCHANGED <<now, revoked, dbUp, cfg, last>>

\* The database answers (or refuses) the query; Scan closes the rows, which
\* returns the connection, and the handler goes on.
QueryAnswer(i) ==
    LET t == threads[i]
        r == ThreadHandler(t, dbUp)
    IN  /\ t.pc = "query"
        /\ threads' = [threads EXCEPT ![i].res = r, ![i].conn = FALSE,
                         ![i].query = "answered",
                         ![i].aborted = t.aborted \/ ~(t.kind = "gate" /\ r.next),
                         ![i].pc = IF t.kind = "gate" /\ r.next
                                   THEN "next" ELSE "responded"]
        /\ UNCHANGED <<now, revoked, dbUp, cfg, last>>

\* The context of an outstanding query is done: database/sql ends the query
\* with the error of the context and returns the connection; the handler
\* sees a store error.
CancelQuery(i) ==
    LET t == threads[i] IN
    /\ t.pc = "query"
    /\ QueryCancelled(t)
    /\ threads' = [threads EXCEPT ![i].res = ThreadHandler(t, FALSE),
                                  ![i].conn = FALSE, ![i].query = "cancelled",
                                  ![i].pc = "responded"]
    /\ UNCHANGED <<now, revoked, dbUp, cfg, last>>

\* The client goes away (or a deadline set on the request passes): the
\* context of the request is cancelled.  A cancellation later than the store
\* query changes nothing the gate or the store does.
Abort(i) ==
    /\ threads[i].pc \in {"received", "query"}
    /\ ~threads[i].aborted
    /\ threads' = [threads EXCEPT ![i].aborted = TRUE]
    /\ UNCHANGED <<now, revoked, dbUp, cfg, last>>

\* The downstream handler runs and reads the identity from its context.
Downstream(i) ==
    /\ threads[i].pc = "next"
    /\ threads' = [threads EXCEPT ![i].seen = FromContext(RequestContext(threads, i)),
                                  ![i].aborted = TRUE,
                                  ![i].pc = "responded"]
    /\ UNCHANGED <<now, revoked, dbUp, cfg, last>>

\* The handler has returned (net/http has cancelled the context of the
\* request by then); the goroutine is free for another request.
Finish(i) ==
    /\ threads[i].pc = "responded"
    /\ threads' = [threads EXCEPT ![i] = IdleThread]
    /\ UNCHANGED <<now, revoked, dbUp, cfg, last>>

\* The database becomes unreachable, or reachable again.
ConcStoreOutage ==
    /\ dbUp' = ~dbUp
    /\ UNCHANGED <<now, revoked, cfg, last, threads>>

ConcNext ==
    \/ \E i \in Workers, cr \in ConcRequests : Receive(i, cr)
    \/ \E i \in Workers : HandleLocally(i)
    \/ \E i \in Workers : BeginQuery(i)
    \/ \E i \in Workers : QueryRefused(i)
    \/ \E i \in Workers : QueryAnswer(i)
    \/ \E i \in Workers : CancelQuery(i)
    \/ \E i \in Workers : Abort(i)
    \/ \E i \in Workers : Downstream(i)
    \/ \E i \in Workers : Finish(i)
    \/ ConcStoreOutage

\* The server starts with the first of the configurations.
ConcInit == Init /\ cfg = Config(SecretA, "", {PathHealthz, PathLogin}, Secs(1))

ConcSpec == ConcInit /\ [][ConcNext]_vars

\* The goroutine that watches the context of an outstanding query is
\* scheduled: a cancelled query is ended.  Nothing obliges the database to
\* answer.
FairConcSpec == ConcSpec /\ \A i \in Workers : WF_vars(CancelQuery(i))

---------------------------------------------------------------------------
\* The reverse proxy (package proxy).  Paths are unescaped: RawPath is empty.

\* strings.TrimPrefix
TrimPrefix(s, p) == IF HasPrefix(s, p) THEN SubSeq(s, Len(p) + 1, Len(s)) ELSE s

\* A trim that removes every leading occurrence of the prefix.
RECURSIVE TrimEveryPrefix(_, _)
TrimEveryPrefix(s, p) ==
    IF p # << >> /\ HasPrefix(s, p)
    THEN TrimEveryPrefix(SubSeq(s, Len(p) + 1, Len(s)), p)
    ELSE s

\* httputil.singleJoiningSlash, by which the director of
\* NewSingleHostReverseProxy joins the path of the target and the path of
\* the request.
singleJoiningSlash(a, b) ==
    LET aslash == a # << >> /\ a[Len(a)] = "/"
        bslash == b # << >> /\ b[1] = "/"
    IN  IF aslash /\ bslash THEN a \o Tail(b)
        ELSE IF ~aslash /\ ~bslash THEN a \o <<"/">> \o b
        ELSE a \o b

\* The proxy had it trimmed every leading occurrence of the prefix.
PathPrefixProxyTrimEvery(prefix, target, path) ==
    singleJoiningSlash(target, TrimEveryPrefix(path, prefix))

\* The path of the request PathPrefixProxy(prefix, target) sends to the
\* backend for a request with the given path; target is the path of the
\* target URL.
PathPrefixProxy(prefix, target, path) ==
    singleJoiningSlash(target, TrimPrefix(path, prefix))

\* Path segments, and the paths of up to MaxSegments of them, with and
\* without a trailing slash.
Segments == { <<"a">>, <<"a", "b">>, <<"f", "o", "o">>, <<"x">> }

RECURSIVE JoinSegments(_)
JoinSegments(segs) ==
    IF segs = << >> THEN << >>
    ELSE <<"/">> \o Head(segs) \o JoinSegments(Tail(segs))

ProxyPaths ==
    { JoinSegments(segs) \o slash :
        segs \in UNION { [1..n -> Segments] : n \in 1..MaxSegments },
        slash \in { << >>, <<"/">> } }
    \cup { <<"/">> }

\* The prefixes the proxy is built with, and the paths of the target URLs:
\* none (http://service-a:8080), the root, and a base path.
ProxyPrefixes == { <<"/", "a">>, <<"/", "x">> }
ProxyTargets  == { << >>, <<"/">>, <<"/", "v", "1">> }

\* The handler PathPrefixProxy(prefix, target) serves a request.
ProxyServe(prefix, target, path) ==
    /\ Idle
    /\ last' = [op |-> "proxy", prefix |-> prefix, target |-> target, path |-> path,
                forwarded |-> PathPrefixProxy(prefix, target, path)]
    /\ UNCHANGED <<now, revoked, dbUp, cfg, threads>>

ProxyNext ==
    \/ \E prefix \in ProxyPrefixes, target \in ProxyTargets, path \in ProxyPaths :
          ProxyServe(prefix, target, path)
    \/ Done

ProxySpec == Init /\ [][ProxyNext]_vars

---------------------------------------------------------------------------
\* Vocabulary of the properties.  These definitions say what a request
\* presents; they do not use the handlers above.

Gate == last.op = "gate"

\* The request in hand is to a protected path: one the gate does not let
\* through unauthenticated (a configured skip path, or the /healthz prefix).
Protected ==
    /\ Gate
    /\ last.req.path \notin cfg.SkipPaths
    /\ ~HasPrefix(last.req.path, PathHealthz)

Forwarded == last.res.next

\* What the downstream handler finds in the context it is called with.
Attached == FromContext(last.res.ctx)

\* The Authorization header is exactly "Bearer <token>".
WellFormedBearer ==
    /\ Len(last.req.authz) = 8
    /\ SubSeq(last.req.authz, 1, 7) = Str(SchemeBearer \o <<" ">>)
    /\ last.req.authz[8].c = ""

\* The token string the Authorization header carries, if it carries one.
PresentedToken ==
    IF \E i \in 1..Len(last.req.authz) : last.req.authz[i].c = ""
    THEN last.req.authz[CHOOSE i \in 1..Len(last.req.authz) : last.req.authz[i].c = ""].tok
    ELSE GarbageToken

CorrectlySigned(tok) ==
    /\ tok.form = "jws"
    /\ tok.alg = "HS256"
    /\ tok.key = cfg.JWTSecret
    /\ KeyBytes(cfg.JWTSecret) >= MinHS256KeyBytes

\* now is within [not-before, expiry).
InWindow(tok) == Secs(tok.nbf) <= now /\ now < Secs(tok.exp)

SubjectIsUUID(tok) == \E f \in UUIDTexts : f[1] = tok.sub

\* A token that ought to verify: correctly signed with the configured
\* secret, within its validity window, its subject a user identifier.
ValidToken(tok) == CorrectlySigned(tok) /\ InWindow(tok) /\ SubjectIsUUID(tok)

\* The value of the API-key header the configuration names.
PresentedKey ==
    IF cfg.APIKeyHeader = "" THEN last.req.hdr["X-Api-Key"]
    ELSE last.req.hdr[CanonicalMIMEHeaderKey(cfg.APIKeyHeader)]

\* The key exists in the store and is not revoked.
ActiveKey(k) == k \in StoredKeys /\ k \notin revoked

\* The user that owns key k, as the identity the API-key path should give.
OwnerIdentity(k) ==
    LET ak == CHOOSE a \in APIKeysTable : a.key = k
        u  == CHOOSE x \in UsersTable : x.id = ak.user_id
    IN  Identity(u.id, u.email, "api_key")

\* The gate answered 401 with the one body, and called nothing downstream.
Rejected ==
    /\ last.res.status = StatusUnauthorized
    /\ last.res.body = "unauthorized\n"
    /\ ~Forwarded
    /\ ~Attached.ok

---------------------------------------------------------------------------
\* C1: a request to a protected path with a well-formed Bearer header whose
\* token is valid is authenticated by the bearer path, with the identity
\* taken from the token, whatever the API-key header holds.
C1_BearerPrecedence ==
    (Protected /\ WellFormedBearer /\ ValidToken(PresentedToken))
    => /\ Forwarded
       /\ Attached.ok
       /\ Attached.identity.UserID = UUIDParse(PresentedToken.sub).id
       /\ Attached.identity.Email = PresentedToken.email
       /\ Attached.identity.Method # "api_key"

\* C2: with no Authorization header and an active key in the configured
\* API-key header (X-API-Key when none is configured), while the store
\* answers, a request to a protected path is passed downstream with the
\* identity of the key's owner, tagged api_key.
C2_APIKeyPath ==
    (Protected /\ last.req.authz = << >> /\ dbUp /\ ActiveKey(PresentedKey))
    => /\ Forwarded
       /\ Attached = [identity |-> OwnerIdentity(PresentedKey), ok |-> TRUE]

C2_Witness ==
    /\ Protected /\ last.req.authz = << >> /\ dbUp /\ ActiveKey(PresentedKey)
    /\ cfg.APIKeyHeader = ""
    /\ Forwarded
    /\ Attached.identity.Method = "api_key"

\* C3: a Bearer token whose verification fails, presented with an active
\* API key while the store answers, does not reject the request: the gate
\* falls back to the API key and authenticates by it.
C3_FallbackToAPIKey ==
    (/\ Protected /\ last.res.verifyCalls = 1
     /\ VerifyToken(PresentedToken, cfg.JWTSecret, now).err # "nil"
     /\ dbUp /\ ActiveKey(PresentedKey))
    => /\ Forwarded
       /\ last.res.lookups = 1
       /\ Attached = [identity |-> OwnerIdentity(PresentedKey), ok |-> TRUE]

C3_Witness ==
    /\ Protected /\ WellFormedBearer /\ last.res.verifyCalls = 1
    /\ PresentedToken.key = cfg.JWTSecret /\ now >= Secs(PresentedToken.exp)
    /\ dbUp /\ ActiveKey(PresentedKey)
    /\ Forwarded
    /\ Attached.identity = OwnerIdentity(PresentedKey)

\* C4: on a protected path, when no valid credential is presented (none at
\* all, or each one invalid), the gate answers 401 with one and the same
\* body, whichever mechanism was tried, and does not call the downstream
\* handler.
C4_UniformRejection ==
    (Protected /\ ~ValidToken(PresentedToken) /\ ~ActiveKey(PresentedKey))
    => Rejected

C4_Witness ==
    /\ Protected /\ WellFormedBearer /\ last.res.verifyCalls = 1
    /\ ~ValidToken(PresentedToken)
    /\ PresentedKey # "" /\ ~ActiveKey(PresentedKey)
    /\ last.res.lookups = 1
    /\ Rejected

\* C5: a request to a configured skip path is passed downstream
\* unconditionally: nothing is verified or looked up and no identity is
\* attached, whatever credentials it carries.
C5_BypassSkipsAuthentication ==
    (Gate /\ last.req.path \in cfg.SkipPaths)
    => /\ Forwarded
       /\ ~Attached.ok
       /\ last.res.verifyCalls = 0
       /\ last.res.lookups = 0

C5_Witness ==
    /\ Gate /\ last.req.path \in cfg.SkipPaths
    /\ WellFormedBearer /\ ~ValidToken(PresentedToken)
    /\ dbUp /\ ActiveKey(PresentedKey)
    /\ Forwarded /\ ~Attached.ok

\* C6: VerifyToken succeeds on every token correctly signed with the
\* configured secret and presented within its validity window, and returns
\* the subject and email of the token.
C6_VerifyReproducesClaims ==
    (Protected /\ last.res.verifyCalls = 1 /\ ValidToken(PresentedToken))
    => /\ VerifyToken(PresentedToken, cfg.JWTSecret, now).err = "nil"
       /\ VerifyToken(PresentedToken, cfg.JWTSecret, now).identity.UserID
             = UUIDParse(PresentedToken.sub).id
       /\ VerifyToken(PresentedToken, cfg.JWTSecret, now).identity.Email
             = PresentedToken.email

\* C7: every identity attached is tagged bearer or api_key: bearer when it
\* comes from a verified bearer token, api_key when it comes from a key.
C7_MethodTags ==
    Protected
    => /\ Attached.ok => Attached.identity.Method \in {"bearer", "api_key"}
       /\ (last.res.verifyCalls = 1 /\ ValidToken(PresentedToken))
             => (Attached.ok /\ Attached.identity.Method = "bearer")
       /\ (last.res.lookups = 1 /\ Attached.ok) => Attached.identity.Method = "api_key"

\* C8: VerifyToken fails on every token whose expiry has passed and on every
\* token not yet valid, whatever its signature, so no request is
\* authenticated by such a token.
C8_WindowEnforced ==
    (/\ Protected /\ last.res.verifyCalls = 1 /\ PresentedToken.form = "jws"
     /\ ~InWindow(PresentedToken))
    => /\ VerifyToken(PresentedToken, cfg.JWTSecret, now).err # "nil"
       /\ ~(Attached.ok /\ Attached.identity.Method # "api_key")

C8_Witness ==
    /\ Protected /\ last.res.verifyCalls = 1
    /\ CorrectlySigned(PresentedToken) /\ SubjectIsUUID(PresentedToken)
    /\ now >= Secs(PresentedToken.exp)
    /\ now - Secs(DefaultLeeway) <= Secs(PresentedToken.exp)
    /\ ~Attached.ok

\* C9: VerifyToken fails on every token signed with a secret other than the
\* configured one, whatever its claims, and the gate attaches no bearer
\* identity for it.
C9_WrongSecretRejected ==
    (/\ Protected /\ last.res.verifyCalls = 1 /\ PresentedToken.form = "jws"
     /\ PresentedToken.key # cfg.JWTSecret)
    => /\ VerifyToken(PresentedToken, cfg.JWTSecret, now).err # "nil"
       /\ ~(Attached.ok /\ Attached.identity.Method # "api_key")

C9_Witness ==
    /\ Protected /\ last.res.verifyCalls = 1
    /\ PresentedToken.alg = "HS256" /\ PresentedToken.key = SecretB
    /\ cfg.JWTSecret = SecretA
    /\ InWindow(PresentedToken) /\ SubjectIsUUID(PresentedToken)
    /\ ~Attached.ok

\* C10: a token issued at time now for the user (U, E) carries subject U,
\* email E, the fixed issuer, issued-at and not-before now and expiry
\* now + ttl, and the expiry returned with it is the expiry it carries
\* (times compared in whole seconds, the precision of the claims).
C10_IssuedClaims ==
    (last.op = "login" /\ last.res.status = StatusOK)
    => /\ \E u \in UsersTable :
            /\ u.email = last.body.Email
            /\ last.res.token.sub = u.id
            /\ last.res.token.email = u.email
       /\ last.res.token.iss = "api-gateway"
       /\ last.res.token.iat = NewNumericDate(last.t1)
       /\ last.res.token.nbf = NewNumericDate(last.t1)
       /\ last.res.token.exp = NewNumericDate(last.t1 + cfg.tokenTTL)
       /\ NewNumericDate(last.res.expires_at) = last.res.token.exp

---------------------------------------------------------------------------
\* A login has just issued a token.
Issued == last.op = "login" /\ last.res.status = StatusOK

\* C11: every token issued carries an expiry strictly after its issued-at.
C11_ExpiryAfterIssuedAt ==
    Issued => last.res.token.exp > last.res.token.iat

\* The request in hand presents no Authorization header: a key, if any, is
\* its only credential.
OnlyKey == Gate /\ last.req.authz = << >>

\* C12: a revoked key never authenticates.  Whenever a key is revoked, the
\* lookup of it fails; and a request to a protected path that arrives when
\* its only credential is a key already revoked is looked up afresh and
\* rejected with 401, the first such request included.
C12_RevokedNeverAuthenticates ==
    [][ \A k \in StoredKeys :
          /\ k \in revoked' => LookupAPIKey(k, revoked', dbUp').err # "nil"
          /\ (k \in revoked /\ Idle /\ Protected' /\ OnlyKey' /\ PresentedKey' = k)
                => (Rejected' /\ last'.res.lookups = 1) ]_vars

\* The key was revoked, and the request presenting it alone was rejected
\* after one lookup, with the store answering.
C12_Witness ==
    /\ Protected /\ OnlyKey
    /\ PresentedKey = "demo-key-123" /\ PresentedKey \in revoked
    /\ dbUp
    /\ last.res.lookups = 1
    /\ Rejected

\* The gate has looked the presented key up, and the store answered.
LookedUp == Gate /\ last.res.lookups = 1 /\ dbUp

\* C13: LookupAPIKey returns the (id, email) of the owner exactly when a row
\* with that very key string exists and is not revoked; for a key that
\* matches no row and for a key whose row is revoked it fails with
\* ErrAPIKeyNotFound and one and the same result.
C13_LookupContract ==
    LookedUp =>
        LET res == LookupAPIKey(PresentedKey, revoked, dbUp) IN
        /\ ActiveKey(PresentedKey) <=> res.err = "nil"
        /\ ActiveKey(PresentedKey) =>
              /\ res.identity.UserID = OwnerIdentity(PresentedKey).UserID
              /\ res.identity.Email = OwnerIdentity(PresentedKey).Email
        /\ ~ActiveKey(PresentedKey) =>
              res = [err |-> "ErrAPIKeyNotFound", identity |-> NoStoreIdentity]

\* A revoked key was looked up while another key is still active, and the
\* lookup answered as it answers for a key that was never stored.
C13_Witness ==
    /\ LookedUp
    /\ PresentedKey = "ops-key-456" /\ PresentedKey \in revoked
    /\ ActiveKey("demo-key-123")
    /\ LookupAPIKey(PresentedKey, revoked, dbUp).err = "ErrAPIKeyNotFound"
    /\ LookupAPIKey(PresentedKey, revoked, dbUp)
          = LookupAPIKey("DEMO-KEY-123", revoked, dbUp)

\* The login request in hand reached AuthenticateUser, and the store
\* answered: a POST with a decodable body and both fields filled in.
CredentialsChecked ==
    /\ last.op = "login" /\ last.method = "POST"
    /\ last.body.json /\ last.body.Email # "" /\ last.body.Password # ""
    /\ dbUp

\* The submitted pair (email, password) is that of a stored user.
GoodCredentials(b) ==
    \E u \in UsersTable : u.email = b.Email /\ u.password_hash.of = b.Password

KnownEmail(b) == \E u \in UsersTable : u.email = b.Email

\* C14: a login with an unknown email and a login with a known email and a
\* wrong password get the same ErrInvalidCredentials from AuthenticateUser
\* and the same response, 401 with one body; on a password match
\* AuthenticateUser returns the id and email of the stored user.
C14_LoginHidesEmailExistence ==
    CredentialsChecked =>
        LET res == AuthenticateUser(last.body.Email, last.body.Password, dbUp) IN
        /\ ~GoodCredentials(last.body) =>
              /\ res = [err |-> "ErrInvalidCredentials", identity |-> NoStoreIdentity]
              /\ last.res.status = StatusUnauthorized
              /\ \A b \in LoginBodies :
                    (b.json /\ b.Email # "" /\ b.Password # "" /\ ~GoodCredentials(b))
                    => LoginHandler("POST", b, cfg, dbUp, last.t1, last.t2, last.t3)
                          = last.res
        /\ GoodCredentials(last.body) =>
              /\ res.err = "nil"
              /\ \E u \in UsersTable :
                    /\ u.email = last.body.Email
                    /\ res.identity = StoreIdentity(u.id, u.email)

\* A known email was submitted with the password of another user, and the
\* answer is the one an unknown email gets.
C14_Witness ==
    /\ CredentialsChecked
    /\ KnownEmail(last.body) /\ ~GoodCredentials(last.body)
    /\ last.res.status = StatusUnauthorized
    /\ last.res.body = "invalid credentials\n"
    /\ last.res = LoginHandler("POST",
                     [json |-> TRUE, Email |-> "nobody@puvaan.dev",
                      Password |-> last.body.Password],
                     cfg, dbUp, last.t1, last.t2, last.t3)

\* C15: when the lookup of the API key presented on a protected path fails
\* because the store cannot be reached, the gate answers with a server
\* fault (5xx), not with 401.
C15_OutageIsServerFault ==
    (/\ Protected /\ last.res.lookups = 1
     /\ LookupAPIKey(PresentedKey, revoked, dbUp).err \notin {"nil", "ErrAPIKeyNotFound"})
    => /\ last.res.status >= 500 /\ last.res.status <= 599
       /\ last.res.status # StatusUnauthorized

LoginRequest == last.op = "login"

\* The result of AuthenticateUser for the login request in hand.
LoginAuth == AuthenticateUser(last.body.Email, last.body.Password, dbUp)

ServerFault(status) == status >= 500 /\ status <= 599

\* The response carries {token, expires_at}.
AnsweredWithToken ==
    /\ last.res.status = StatusOK
    /\ last.res.token # EmptyToken
    /\ last.res.token.form = "jws"

\* The outcomes of a login that come before the issuing of the token, in
\* their order; rest is the outcome once AuthenticateUser has succeeded.
LoginOutcome(rest) ==
    IF last.method # "POST" THEN last.res.status = StatusMethodNotAllowed
    ELSE IF ~last.body.json \/ last.body.Email = "" \/ last.body.Password = ""
    THEN last.res.status = StatusBadRequest
    ELSE IF LoginAuth.err = "ErrInvalidCredentials"
    THEN last.res.status = StatusUnauthorized
    ELSE IF LoginAuth.err # "nil"
    THEN ServerFault(last.res.status)
    ELSE rest

\* A token is issued only after AuthenticateUser succeeded for the
\* submitted email and password, on a POST.
TokenOnlyAfterAuth ==
    last.res.token # EmptyToken
    => /\ last.method = "POST"
       /\ GoodCredentials(last.body) /\ dbUp
       /\ last.res.token.email = last.body.Email

\* C16, as stated: 405 for a method other than POST, then 400 for an
\* undecodable body or an empty field, then 401 for ErrInvalidCredentials,
\* then 5xx for another store error, and {token, expires_at} otherwise; a
\* token only after AuthenticateUser succeeded.
C16_LoginOutcomes ==
    LoginRequest => (LoginOutcome(AnsweredWithToken) /\ TokenOnlyAfterAuth)

\* C16, amended: as stated, with one more outcome after AuthenticateUser
\* has succeeded: when the token cannot be signed the answer is a 5xx
\* without a token, and {token, expires_at} otherwise.
C16_LoginOutcomesWithIssueFailure ==
    LoginRequest =>
        /\ LoginOutcome(
              IF generateToken(LoginAuth.identity, cfg.JWTSecret, cfg.tokenTTL,
                               cfg.issuer, last.t1, last.t2, last.t3).err # "nil"
              THEN ServerFault(last.res.status) /\ last.res.token = EmptyToken
              ELSE AnsweredWithToken)
        /\ TokenOnlyAfterAuth

\* AuthenticateUser succeeded, the token could not be signed, and the
\* answer is a 500 without a token.
C16_Witness ==
    /\ LoginRequest /\ last.method = "POST"
    /\ GoodCredentials(last.body) /\ dbUp
    /\ KeyBytes(cfg.JWTSecret) < MinHS256KeyBytes
    /\ last.res.status = StatusInternalServerError
    /\ last.res.body = "could not issue token\n"
    /\ last.res.token = EmptyToken

\* Context ctx holds no value under the identity key.
NothingAttached(ctx) == \A i \in 1..Len(ctx) : ctx[i].key # identityContextKey

\* C17: FromContext reports absent on a context to which no Identity was
\* attached, as is the context of a request the gate bypassed or rejected,
\* and never present with the zero Identity there; and on
\* WithIdentity(ctx, id) it reports present with exactly id, whatever ctx
\* held before.
C17_PresenceAbsence ==
    Gate =>
        /\ NothingAttached(last.res.ctx) => ~Attached.ok
        /\ (~Forwarded \/ ~Protected) => (NothingAttached(last.res.ctx) /\ ~Attached.ok)
        /\ \A ctx \in ContextInputs :
              /\ NothingAttached(ctx) => ~FromContext(ctx).ok
              /\ \A id \in {ZeroIdentity, Attached.identity} :
                    FromContext(WithIdentity(ctx, id)) = [identity |-> id, ok |-> TRUE]
        /\ ~NothingAttached(last.res.ctx) =>
              /\ Attached.ok
              /\ Attached.identity = last.res.ctx[1].val
              /\ Attached.identity # ZeroIdentity

\* The gate attached the identity of the owner of the key in the configured
\* header X-Gateway-Key, and the downstream handler reads exactly it.
C17_Witness ==
    /\ Protected /\ Forwarded
    /\ cfg.APIKeyHeader = "X-Gateway-Key"
    /\ last.res.ctx = WithIdentity(EmptyContext, OwnerIdentity(PresentedKey))
    /\ Attached = [identity |-> OwnerIdentity(PresentedKey), ok |-> TRUE]
    /\ ~FromContext(EmptyContext).ok

\* The value of the API-key header the configuration names, in request r.
KeyOf(r) ==
    IF cfg.APIKeyHeader = "" THEN r.hdr["X-Api-Key"]
    ELSE r.hdr[CanonicalMIMEHeaderKey(cfg.APIKeyHeader)]

\* Request r is to a path the gate lets through unauthenticated.
BypassPath(r) == r.path \in cfg.SkipPaths \/ HasPrefix(r.path, PathHealthz)

\* The downstream handler of the gate request of goroutine i has run.
Observed(i) ==
    /\ threads[i].kind = "gate"
    /\ threads[i].pc = "responded"
    /\ threads[i].seen # << >>

\* C18: among requests handled at the same time, the downstream handler of
\* each one finds in its context only the identity of the owner of the key
\* that very request presented, and none when the request was bypassed;
\* the downstream handler of a request that failed is not called; and a
\* goroutine that takes its next request starts with nothing attached.
C18_IdentityRequestScoped ==
    \A i \in Workers :
        /\ Observed(i) =>
              /\ threads[i].seen.ok =>
                    /\ ~BypassPath(threads[i].req)
                    /\ KeyOf(threads[i].req) \in StoredKeys
                    /\ threads[i].seen.identity = OwnerIdentity(KeyOf(threads[i].req))
              /\ BypassPath(threads[i].req) => ~threads[i].seen.ok
        /\ (threads[i].kind = "gate" /\ threads[i].pc = "responded"
              /\ ~threads[i].res.next) => threads[i].seen = << >>
        /\ threads[i].pc \in {"idle", "received"} =>
              (threads[i].res = << >> /\ threads[i].seen = << >>)

\* Two requests in hand at once, authenticated as different users, each
\* seen downstream as its own user.
C18_Witness ==
    /\ Observed(1) /\ Observed(2)
    /\ threads[1].seen.ok /\ threads[2].seen.ok
    /\ threads[1].seen.identity.UserID = U1
    /\ threads[2].seen.identity.UserID = U2

\* The request of goroutine i was aborted while its store query is
\* outstanding and holds a connection.
AbortedInQuery(i) ==
    threads[i].pc = "query" /\ threads[i].aborted /\ threads[i].conn

\* C19: a request aborted while its store query (LookupAPIKey or
\* AuthenticateUser) is outstanding has the query cancelled and its
\* connection returned to the pool, eventually and whether or not the
\* database ever answers; a connection is held only while a query is
\* outstanding, so aborted requests leave none held for good.
C19_AbortReleasesConnection ==
    /\ [](\A i \in Workers : threads[i].conn => threads[i].pc = "query")
    /\ \A i \in Workers : AbortedInQuery(i) ~> ~threads[i].conn

\* The query of an aborted login was cancelled, and so was the lookup of an
\* aborted gate request; both were answered with a store error, and the
\* pool has all its connections back.
C19_Witness ==
    /\ threads[1].kind = "login" /\ threads[2].kind = "gate"
    /\ \A i \in Workers :
          /\ threads[i].pc = "responded"
          /\ threads[i].aborted
          /\ threads[i].query = "cancelled"
          /\ ~threads[i].conn
    /\ threads[1].res.status = StatusInternalServerError
    /\ threads[2].res.status = StatusUnauthorized
    /\ InUse = 0

\* The request in hand was served by the proxy.
Proxied == last.op = "proxy"

\* The path lies under the prefix of the route: it is the prefix itself, or
\* the prefix followed by a slash and the rest.
UnderPrefix ==
    \/ last.path = last.prefix
    \/ HasPrefix(last.path, last.prefix \o <<"/">>)

\* The path of the target URL without its trailing slash: what the proxy
\* puts before the path it forwards.
BasePath ==
    IF last.target # << >> /\ last.target[Len(last.target)] = "/"
    THEN SubSeq(last.target, 1, Len(last.target) - 1)
    ELSE last.target

\* C20: a request whose path lies under the prefix is forwarded to the
\* target with the first occurrence of the prefix, and only that one,
\* removed from its path; a path equal to the prefix is forwarded as "/".
C20_PrefixStrippedOnce ==
    (Proxied /\ UnderPrefix) =>
        /\ last.path = last.prefix => last.forwarded = BasePath \o <<"/">>
        /\ last.path # last.prefix =>
              last.forwarded
                 = BasePath \o SubSeq(last.path, Len(last.prefix) + 1, Len(last.path))

\* /a/a/x was sent to the proxy of /a with a target without a path and went
\* out as /a/x; the prefix alone goes out as "/".
C20_Witness ==
    /\ Proxied /\ UnderPrefix
    /\ last.prefix = <<"/", "a">> /\ last.target = << >>
    /\ last.path = <<"/", "a", "/", "a", "/", "x">>
    /\ last.forwarded = <<"/", "a", "/", "x">>
    /\ PathPrefixProxy(last.prefix, last.target, last.prefix) = <<"/">>

\* Bearer verification, or the lookup of the key, succeeded for the request
\* in hand.
VerificationSucceeded ==
    \/ /\ last.res.verifyCalls = 1
       /\ VerifyToken(PresentedToken, cfg.JWTSecret, now).err = "nil"
    \/ /\ last.res.lookups = 1
       /\ LookupAPIKey(PresentedKey, revoked, dbUp).err = "nil"

\* C21: a request whose path is not in the configured bypass set reaches
\* the downstream handler only if bearer verification or API-key
\* verification succeeded for it.
C21_OnlyConfiguredPathsBypass ==
    (Gate /\ last.req.path \notin cfg.SkipPaths /\ Forwarded)
    => VerificationSucceeded

\* The letters of the scheme, in either case, and the space after it.
SchemeLetters ==
    << {"b", "B"}, {"e", "E"}, {"a", "A"}, {"r", "R"}, {"e", "E"}, {"r", "R"}, {" "} >>

\* The Authorization header of the request in hand is the scheme bearer, in
\* any case, a space, and a remainder that is not only spaces.
BearerForm ==
    /\ Len(last.req.authz) > Len(SchemeLetters)
    /\ \A i \in 1..Len(SchemeLetters) : last.req.authz[i].c \in SchemeLetters[i]
    /\ \E i \in (Len(SchemeLetters) + 1)..Len(last.req.authz) : last.req.authz[i].c # " "

\* C22: on a protected path VerifyToken is called, once, exactly when the
\* Authorization header has the bearer form; for an absent header, another
\* scheme or an empty token it is not called and the gate goes on to the
\* API-key check, which looks the key up if one is presented.
C22_BearerAttemptedExactlyOnForm ==
    Protected =>
        /\ BearerForm <=> last.res.verifyCalls = 1
        /\ ~BearerForm =>
              /\ last.res.verifyCalls = 0
              /\ last.res.lookups = (IF PresentedKey = "" THEN 0 ELSE 1)

\* The scheme in capitals, two spaces, a token and a trailing space: it is
\* verified; and the same configuration does not verify "Bearer " alone.
C22_Witness ==
    /\ Protected /\ BearerForm
    /\ last.req.authz[1].c = "B" /\ last.req.authz[2].c = "E"
    /\ last.req.authz[8].c = " "
    /\ last.req.authz[Len(last.req.authz)].c = " "
    /\ last.res.verifyCalls = 1
    /\ authenticateJWT(Request(last.req.path, Str(SchemeBearer \o <<" ">>), last.req.hdr),
                       cfg.JWTSecret, now).verifyCalls = 0

\* C23: when bearer verification succeeds the store is not consulted, so a
\* request to a protected path with a valid bearer token is authenticated
\* and forwarded without a lookup, also while the store is unavailable; and
\* no request causes more than one lookup.
C23_FirstSuccessWins ==
    Protected =>
        /\ (/\ last.res.verifyCalls = 1
            /\ VerifyToken(PresentedToken, cfg.JWTSecret, now).err = "nil")
           => last.res.lookups = 0
        /\ (WellFormedBearer /\ ValidToken(PresentedToken))
           => (Forwarded /\ Attached.ok /\ last.res.lookups = 0)
        /\ last.res.lookups <= 1

====
